---- MODULE Spec2Model ----
\* Presentation layer of the chat command line: prompt formatting and
\* parsing (prompt.rs), the help catalog (help.rs) and the completion
\* dispatcher and the multi-line input validator (prompt.rs), and the
\* console shim (util/windows.rs).  Strings are sequences of one-character
\* strings.
EXTENDS Naturals, Integers, Sequences, FiniteSets, TLC

VARIABLES
    \* ---- prompt formatter ----
    current_profile,  \* Option<&str> handed to generate_prompt
    warning,          \* bool handed to generate_prompt
    prompt,           \* the plain prompt text held by the editor
    prompt_origin,    \* "generated" | "raw": who produces `prompt`
    components,       \* Option<PromptComponents> of the last parse
    highlighted,      \* Option<String>: output of the last highlight_prompt
    prompt_pc,        \* "new" | "fresh" | "parsed" | "shown"
    \* ---- help catalog ----
    current_os,       \* the OS tag the build selects in generate_help_text
    help_text,        \* the String being built, as the sequence of pushed pieces
    cmd_idx,          \* position of `for cmd in HELP_COMMANDS`
    sub_idx,          \* position of `for subcmd in cmd.subcommands`
    help_pc,          \* "start" | "cmd" | "sub" | "done"
    \* ---- completion dispatcher ----
    line,             \* `line` argument of the current complete call
    pos,              \* `pos` argument of the current complete call
    fs,               \* what the filename completer answers for (line, pos)
    complete_pc,      \* "idle" | "recv" (blocked in receiver.recv()) | "done"
    req_queue,        \* request channel: messages sent and not yet taken
    resp_queue,       \* response channel: messages sent and not yet received
    req_rx_alive,     \* the collaborator still holds the request Receiver
    resp_tx_alive,    \* the collaborator still holds the response Sender
    sent,             \* requests this call has put on the request channel
    received,         \* Option of what receiver.recv() returned to this call
    consulted,        \* the sources this call has invoked, in order
    result,           \* Option of the value complete returned
    prompt_returned,  \* Option of the value complete_prompt returned to complete
    \* ---- multi-line input validator ----
    buffer,           \* ctx.input(): the whole current input buffer
    validation,       \* Option of the value validate returned
    \* ---- console shim ----
    std_handle,       \* what GetStdHandle(STD_OUTPUT_HANDLE) returns in this process
    console_mode,     \* the mode flags the console holds
    ansi_pc,          \* "idle" | "handle" | "mode" | "returned"
    mode,             \* the local `mode` of enable_ansi_support
    got,              \* Option<bool>: GetConsoleMode was called and succeeded or not
    wrote,            \* Option<bool>: SetConsoleMode was called and succeeded or not
    mode_before,      \* the console mode when the current call began
    ansi_result,      \* Option of the value enable_ansi_support returned
    ansi_calls        \* number of calls of enable_ansi_support so far

prompt_vars == <<current_profile, warning, prompt, prompt_origin, components,
                 highlighted, prompt_pc>>

help_vars == <<current_os, help_text, cmd_idx, sub_idx, help_pc>>

completion_vars == <<line, pos, fs, complete_pc, req_queue, resp_queue, req_rx_alive,
                     resp_tx_alive, sent, received, consulted, result, prompt_returned>>

validator_vars == <<buffer, validation>>

ansi_vars == <<std_handle, console_mode, ansi_pc, mode, got, wrote, mode_before,
               ansi_result, ansi_calls>>

vars == <<prompt_vars, help_vars, completion_vars, validator_vars, ansi_vars>>

\* ------------------------------------------------------------------
\* Bounds
\* ------------------------------------------------------------------
MaxProfileLen == 2
MaxTextLen == 4
MaxLineLen == 3
\* longest input buffer handed to the validator
MaxBufferLen == 6
\* most requests left on the request channel in an editor session
MaxPending == 2
\* number of flag bits of the console mode that are modelled
ModeBits == 3
\* most calls of enable_ansi_support in one behaviour
MaxAnsiCalls == 2

\* ------------------------------------------------------------------
\* Option values and string helpers
\* ------------------------------------------------------------------
None == <<>>
Some(x) == <<x>>
IsSome(o) == Len(o) = 1
Unwrap(o) == o[1]

\* Rust's s[a..b] on 0-based offsets
Slice(s, a, b) == SubSeq(s, a + 1, b)

\* char::is_whitespace, on the characters the model uses
IsWhitespace(c) == c \in {" ", "\t", "\n"}

\* str::find(char): offset of the first occurrence
Find(s, c) ==
    IF \E i \in 1..Len(s) : s[i] = c
    THEN Some((CHOOSE i \in 1..Len(s) : s[i] = c /\ \A j \in 1..(i - 1) : s[j] # c) - 1)
    ELSE None

RECURSIVE TrimStart(_)
TrimStart(s) ==
    IF s # <<>> /\ IsWhitespace(Head(s)) THEN TrimStart(Tail(s)) ELSE s

RECURSIVE TrimEnd(_)
TrimEnd(s) ==
    IF s # <<>> /\ IsWhitespace(s[Len(s)]) THEN TrimEnd(SubSeq(s, 1, Len(s) - 1)) ELSE s

Trim(s) == TrimEnd(TrimStart(s))

\* str::starts_with
StartsWith(s, p) == Len(p) <= Len(s) /\ SubSeq(s, 1, Len(p)) = p

\* str::ends_with
EndsWith(s, p) == Len(p) <= Len(s) /\ SubSeq(s, Len(s) - Len(p) + 1, Len(s)) = p

\* the elements of a sequence
Range(s) == {s[i] : i \in 1..Len(s)}

\* all sequences over S of length at most n
SeqsUpTo(S, n) == UNION {[1..k -> S] : k \in 0..n}

\* ------------------------------------------------------------------
\* Prompt formatter (prompt.rs)
\* ------------------------------------------------------------------
Default == <<"d", "e", "f", "a", "u", "l", "t">>
Invalid == <<"i", "n", "v", "a", "l", "i", "d">>

PromptChars == {"a", "[", "]", "!", ">", " "}

\* the profile names and prompt texts the environment supplies
Profiles == {None} \cup {Some(p) : p \in SeqsUpTo(PromptChars, MaxProfileLen) \cup {Default}}
PromptTexts == SeqsUpTo(PromptChars, MaxTextLen) \cup {Invalid}

PromptComponents(profile, warn) == [profile |-> profile, warning |-> warn]

\* mutant: the profile name is sliced from the bracket, not from after it
parse_prompt_components_off_by_one(text) ==
    LET r0 == Trim(text)
        start == Find(r0, "[")
        end == Find(r0, "]")
        bracket == IsSome(start) /\ IsSome(end) /\ Unwrap(start) < Unwrap(end)
        profile == IF bracket
                   THEN Some(Slice(r0, Unwrap(start), Unwrap(end)))
                   ELSE None
        r1 == IF bracket
              THEN TrimStart(Slice(r0, Unwrap(end) + 1, Len(r0)))
              ELSE r0
        warn == StartsWith(r1, <<"!">>)
        r2 == IF warn THEN TrimStart(Slice(r1, 1, Len(r1))) ELSE r1
    IN  IF TrimEnd(r2) = <<">">>
        THEN Some(PromptComponents(profile, warn))
        ELSE None

parse_prompt_components(text) ==
    LET r0 == Trim(text)
        start == Find(r0, "[")
        end == Find(r0, "]")
        bracket == IsSome(start) /\ IsSome(end) /\ Unwrap(start) < Unwrap(end)
        profile == IF bracket
                   THEN Some(Slice(r0, Unwrap(start) + 1, Unwrap(end)))
                   ELSE None
        r1 == IF bracket
              THEN TrimStart(Slice(r0, Unwrap(end) + 1, Len(r0)))
              ELSE r0
        warn == StartsWith(r1, <<"!">>)
        r2 == IF warn THEN TrimStart(Slice(r1, 1, Len(r1))) ELSE r1
    IN  IF TrimEnd(r2) = <<">">>
        THEN Some(PromptComponents(profile, warn))
        ELSE None

\* mutant: the "default" sentinel is not filtered out
generate_prompt_keeps_default(profile, warn) ==
    LET warning_symbol == IF warn THEN <<"!">> ELSE <<>>
        profile_part == IF IsSome(profile)
                        THEN <<"[">> \o Unwrap(profile) \o <<"]", " ">>
                        ELSE <<>>
    IN  profile_part \o warning_symbol \o <<">", " ">>

generate_prompt(profile, warn) ==
    LET warning_symbol == IF warn THEN <<"!">> ELSE <<>>
        filtered == IF IsSome(profile) /\ Unwrap(profile) # Default THEN profile ELSE None
        profile_part == IF IsSome(filtered)
                        THEN <<"[">> \o Unwrap(filtered) \o <<"]", " ">>
                        ELSE <<>>
    IN  profile_part \o warning_symbol \o <<">", " ">>

\* ANSI escape sequences emitted by highlight_prompt
Esc == "ESC"
Cyan == <<Esc, "[", "3", "6", "m">>
Red == <<Esc, "[", "3", "1", "m">>
CyanBold == <<Esc, "[", "3", "6", ";", "1", "m">>
Reset == <<Esc, "[", "0", "m">>

\* mutant: the fallback colors the text instead of passing it through
highlight_prompt_colors_fallback(text) ==
    LET captures == parse_prompt_components(text)
    IN  IF IsSome(captures)
        THEN LET c == Unwrap(captures)
                 profile_part == IF IsSome(c.profile)
                                 THEN Cyan \o <<"[">> \o Unwrap(c.profile) \o <<"]", " ">> \o Reset
                                 ELSE <<>>
                 warning_part == IF c.warning THEN Red \o <<"!">> \o Reset ELSE <<>>
                 prompt_part == CyanBold \o <<">", " ">> \o Reset
             IN  profile_part \o warning_part \o prompt_part
        ELSE CyanBold \o text \o Reset

highlight_prompt(text) ==
    LET captures == parse_prompt_components(text)
    IN  IF IsSome(captures)
        THEN LET c == Unwrap(captures)
                 profile_part == IF IsSome(c.profile)
                                 THEN Cyan \o <<"[">> \o Unwrap(c.profile) \o <<"]", " ">> \o Reset
                                 ELSE <<>>
                 warning_part == IF c.warning THEN Red \o <<"!">> \o Reset ELSE <<>>
                 prompt_part == CyanBold \o <<">", " ">> \o Reset
             IN  profile_part \o warning_part \o prompt_part
        ELSE text

\* The inputs of one run: either a profile and a warning flag from which the
\* chat loop builds the prompt, or an arbitrary prompt text handed to the
\* editor.
PromptInit ==
    /\ \/ /\ prompt_origin = "generated"
          /\ current_profile \in Profiles
          /\ warning \in BOOLEAN
          /\ prompt = <<>>
          /\ prompt_pc = "new"
       \/ /\ prompt_origin = "raw"
          /\ current_profile = None
          /\ warning = FALSE
          /\ prompt \in PromptTexts
          /\ prompt_pc = "fresh"
    /\ components = None
    /\ highlighted = None

\* the chat loop builds the prompt for the current profile
GeneratePrompt ==
    /\ prompt_pc = "new"
    /\ prompt' = generate_prompt(current_profile, warning)
    /\ prompt_pc' = "fresh"
    /\ UNCHANGED <<current_profile, warning, prompt_origin, components, highlighted>>
    /\ UNCHANGED <<help_vars, completion_vars, validator_vars, ansi_vars>>

ParsePrompt ==
    /\ prompt_pc = "fresh"
    /\ components' = parse_prompt_components(prompt)
    /\ prompt_pc' = "parsed"
    /\ UNCHANGED <<current_profile, warning, prompt, prompt_origin, highlighted>>
    /\ UNCHANGED <<help_vars, completion_vars, validator_vars, ansi_vars>>

HighlightPrompt ==
    /\ prompt_pc \in {"fresh", "parsed"}
    /\ components' = parse_prompt_components(prompt)
    /\ highlighted' = Some(highlight_prompt(prompt))
    /\ prompt_pc' = "shown"
    /\ UNCHANGED <<current_profile, warning, prompt, prompt_origin>>
    /\ UNCHANGED <<help_vars, completion_vars, validator_vars, ansi_vars>>

PromptNext == GeneratePrompt \/ ParsePrompt \/ HighlightPrompt

\* ------------------------------------------------------------------
\* Properties of the prompt formatter
\* ------------------------------------------------------------------
Contains(s, c) == \E i \in 1..Len(s) : s[i] = c

\* the profile the parser is expected to recover from a generated prompt
ExpectedProfile ==
    IF IsSome(current_profile) /\ Unwrap(current_profile) # Default
    THEN current_profile
    ELSE None

PromptParsed == prompt_pc \in {"parsed", "shown"}

\* C1 (as stated): parsing a generated prompt recovers (Some(p), w) for every
\* profile string p other than "default", and (None, w) for p absent or
\* "default".
C1_RoundTripAnyProfile ==
    (prompt_origin = "generated" /\ PromptParsed)
        => components = Some(PromptComponents(ExpectedProfile, warning))

\* C1 (amended): parsing a generated prompt recovers (Some(p), w) for every
\* profile string p other than "default" that contains no "]", and (None, w)
\* for p absent or "default".
C1_RoundTrip ==
    (/\ prompt_origin = "generated"
     /\ PromptParsed
     /\ (IsSome(current_profile) => ~Contains(Unwrap(current_profile), "]")))
        => components = Some(PromptComponents(ExpectedProfile, warning))

C1_Witness ==
    /\ prompt_origin = "generated"
    /\ prompt_pc = "parsed"
    /\ current_profile = Some(<<"[", "a">>)
    /\ warning
    /\ components = Some(PromptComponents(Some(<<"[", "a">>), TRUE))

\* C2: generate_prompt returns "[{profile}] " when the profile is present and
\* not "default" (nothing otherwise), then "!" iff warning, then "> ".
C2_GeneratePromptText ==
    (prompt_origin = "generated" /\ prompt_pc # "new")
        => /\ prompt = (IF ExpectedProfile = None
                         THEN <<>>
                         ELSE <<"[">> \o Unwrap(current_profile) \o <<"]", " ">>)
                        \o (IF warning THEN <<"!">> ELSE <<>>)
                        \o <<">", " ">>
           /\ (current_profile \in {None, Some(Default)}
                 => prompt = IF warning THEN <<"!", ">", " ">> ELSE <<">", " ">>)

C2_Witness ==
    /\ prompt_origin = "generated"
    /\ prompt_pc = "fresh"
    /\ current_profile = Some(Default)
    /\ warning
    /\ prompt = <<"!", ">", " ">>

\* What is left of a prompt text once the text up to the first "]" (when a
\* "[" precedes it) and then a leading "!" are taken away, trimmed.
C3_Remainder(text) ==
    LET s == Trim(text)
        closes == {j \in 1..Len(s) : s[j] = "]"}
        firstClose == CHOOSE j \in closes : \A k \in closes : j <= k
        hasSegment == closes # {} /\ \E i \in 1..Len(s) : s[i] = "[" /\ i < firstClose
        afterSegment == IF hasSegment THEN Trim(SubSeq(s, firstClose + 1, Len(s))) ELSE s
        afterBang == IF afterSegment # <<>> /\ afterSegment[1] = "!"
                     THEN Trim(Tail(afterSegment))
                     ELSE afterSegment
    IN  afterBang

CommandHelp(command, description, subcommands, supported_os) ==
    [command |-> command, description |-> description,
     subcommands |-> subcommands, supported_os |-> supported_os]

SubCommand(name, description) == [name |-> name, description |-> description]

HELP_COMMANDS == <<
    CommandHelp("/clear",
        "Clear the conversation history",
        <<>>,
        <<"all">>),
    CommandHelp("/issue",
        "Report an issue or make a feature request",
        <<>>,
        <<"all">>),
    CommandHelp("/editor",
        "Open $EDITOR (defaults to vi) to compose a prompt",
        <<>>,
        <<"unix">>),
    CommandHelp("/help",
        "Show this help dialogue",
        <<>>,
        <<"all">>),
    CommandHelp("/quit",
        "Quit the application",
        <<>>,
        <<"all">>),
    CommandHelp("/compact",
        "Summarize the conversation to free up context space",
        <<
          SubCommand("help", "Show help for the compact command"),
          SubCommand("[prompt]", "Optional custom prompt to guide summarization") >>,
        <<"all">>),
    CommandHelp("/tools",
        "View and manage tools and permissions",
        <<
          SubCommand("help", "Show an explanation for the trust command"),
          SubCommand("trust", "Trust a specific tool or tools for the session"),
          SubCommand("untrust", "Revert a tool or tools to per-request confirmation"),
          SubCommand("trustall", "Trust all tools (equivalent to deprecated /acceptall)"),
          SubCommand("reset", "Reset all tools to default permission levels") >>,
        <<"all">>),
    CommandHelp("/mcp",
        "See mcp server loaded",
        <<>>,
        <<"all">>),
    CommandHelp("/model",
        "Select a model for the current conversation session",
        <<>>,
        <<"all">>),
    CommandHelp("/profile",
        "Manage profiles",
        <<
          SubCommand("help", "Show profile help"),
          SubCommand("list", "List profiles"),
          SubCommand("set", "Set the current profile"),
          SubCommand("create", "Create a new profile"),
          SubCommand("delete", "Delete a profile"),
          SubCommand("rename", "Rename a profile") >>,
        <<"all">>),
    CommandHelp("/prompts",
        "View and retrieve prompts",
        <<
          SubCommand("help", "Show prompts help"),
          SubCommand("list", "List or search available prompts"),
          SubCommand("get", "Retrieve and send a prompt") >>,
        <<"all">>),
    CommandHelp("/context",
        "Manage context files and hooks for the chat session",
        <<
          SubCommand("help", "Show context help"),
          SubCommand("show", "Display current context rules configuration [--expand]"),
          SubCommand("add", "Add file(s) to context [--global] [--force]"),
          SubCommand("rm", "Remove file(s) from context [--global]"),
          SubCommand("clear", "Clear all files from current context [--global]"),
          SubCommand("hooks", "View and manage context hooks") >>,
        <<"all">>),
    CommandHelp("/usage",
        "Show current session's context window usage",
        <<>>,
        <<"all">>),
    CommandHelp("/load",
        "Load conversation state from a JSON file",
        <<>>,
        <<"all">>),
    CommandHelp("/save",
        "Save conversation state to a JSON file",
        <<>>,
        <<"all">>),
    CommandHelp("/subscribe",
        "Upgrade to a Q Developer Pro subscription for increased query limits",
        <<
          SubCommand("manage", "View and manage your existing subscription on AWS") >>,
        <<"all">>) >>

\* the values `current_os` takes, one per build target
OsTags == {"windows", "unix", "all"}

\* slice::contains
SliceContains(s, x) == \E i \in 1..Len(s) : s[i] = x

\* mutant: the OS filter is dropped
Supported_any_os(cmd, os) == TRUE

\* the negation of the `continue` test of the command loop
Supported(cmd, os) ==
    ~(~SliceContains(cmd.supported_os, "all") /\ ~SliceContains(cmd.supported_os, os))

\* one pushed piece of the help text: its kind and the two texts formatted in
HelpLine(kind, name, description) == <<kind, name, description>>

HelpHeaderLines ==
    << HelpLine("text", "\n\n", ""),
       HelpLine("title", "q", "(Amazon Q Chat)"),
       HelpLine("section", "Commands:", "") >>

HelpTrailerLines ==
    << HelpLine("section", "MCP:", ""),
       HelpLine("text", "You can now configure the Amazon Q CLI to use MCP servers.", ""),
       HelpLine("section", "Tips:", ""),
       HelpLine("tip", "!{command}", "Quickly execute a command in your current session"),
       HelpLine("tip", "Ctrl(^) + j", "Insert new-line to provide multi-line prompt."),
       HelpLine("tip", "Ctrl(^) + s", "Fuzzy search commands and context files."),
       HelpLine("tip", "", "Change the keybind to ctrl+x with: q settings chat.skimCommandKey x"),
       HelpLine("tip", "chat.editMode", "Set editing mode (vim or emacs)") >>

HelpInit ==
    /\ current_os \in OsTags
    /\ help_text = <<>>
    /\ help_pc = "start"
    /\ cmd_idx = 1
    /\ sub_idx = 1

\* generate_help_text up to the command loop
HelpHeader ==
    /\ help_pc = "start"
    /\ help_text' = help_text \o HelpHeaderLines
    /\ help_pc' = "cmd"
    /\ UNCHANGED <<current_os, cmd_idx, sub_idx>>
    /\ UNCHANGED <<prompt_vars, completion_vars, validator_vars, ansi_vars>>

\* loop head: a command that is not supported on this OS is skipped
HelpSkipCommand ==
    /\ help_pc = "cmd"
    /\ cmd_idx <= Len(HELP_COMMANDS)
    /\ ~Supported(HELP_COMMANDS[cmd_idx], current_os)
    /\ cmd_idx' = cmd_idx + 1
    /\ UNCHANGED <<current_os, help_text, help_pc, sub_idx>>
    /\ UNCHANGED <<prompt_vars, completion_vars, validator_vars, ansi_vars>>

\* loop body: the command's own line
HelpCommand ==
    /\ help_pc = "cmd"
    /\ cmd_idx <= Len(HELP_COMMANDS)
    /\ Supported(HELP_COMMANDS[cmd_idx], current_os)
    /\ LET cmd == HELP_COMMANDS[cmd_idx]
       IN  help_text' = Append(help_text, HelpLine("command", cmd.command, cmd.description))
    /\ help_pc' = "sub"
    /\ sub_idx' = 1
    /\ UNCHANGED <<current_os, cmd_idx>>
    /\ UNCHANGED <<prompt_vars, completion_vars, validator_vars, ansi_vars>>

\* inner loop: one subcommand line
HelpSubcommand ==
    /\ help_pc = "sub"
    /\ sub_idx <= Len(HELP_COMMANDS[cmd_idx].subcommands)
    /\ LET subcmd == HELP_COMMANDS[cmd_idx].subcommands[sub_idx]
       IN  help_text' = Append(help_text, HelpLine("subcommand", subcmd.name, subcmd.description))
    /\ sub_idx' = sub_idx + 1
    /\ UNCHANGED <<current_os, cmd_idx, help_pc>>
    /\ UNCHANGED <<prompt_vars, completion_vars, validator_vars, ansi_vars>>

\* inner loop exhausted: on to the next command
HelpNextCommand ==
    /\ help_pc = "sub"
    /\ sub_idx > Len(HELP_COMMANDS[cmd_idx].subcommands)
    /\ cmd_idx' = cmd_idx + 1
    /\ help_pc' = "cmd"
    /\ UNCHANGED <<current_os, help_text, sub_idx>>
    /\ UNCHANGED <<prompt_vars, completion_vars, validator_vars, ansi_vars>>

\* after the loop: the fixed MCP and Tips sections
HelpTrailer ==
    /\ help_pc = "cmd"
    /\ cmd_idx > Len(HELP_COMMANDS)
    /\ help_text' = help_text \o HelpTrailerLines
    /\ help_pc' = "done"
    /\ UNCHANGED <<current_os, cmd_idx, sub_idx>>
    /\ UNCHANGED <<prompt_vars, completion_vars, validator_vars, ansi_vars>>

HelpNext ==
    \/ HelpHeader \/ HelpSkipCommand \/ HelpCommand
    \/ HelpSubcommand \/ HelpNextCommand \/ HelpTrailer

\* ------------------------------------------------------------------
\* Properties of the help catalog
\* ------------------------------------------------------------------
\* the command and subcommand lines of a help text, in order
CommandSection(text) ==
    SelectSeq(text, LAMBDA l : l[1] \in {"command", "subcommand"})

\* the lines of the commands whose supported_os has "all" or the tag, each
\* followed by its subcommands, in table order
RECURSIVE ExpectedSection(_, _)
ExpectedSection(i, os) ==
    IF i > Len(HELP_COMMANDS)
    THEN <<>>
    ELSE LET cmd == HELP_COMMANDS[i]
             included == \E k \in 1..Len(cmd.supported_os) : cmd.supported_os[k] \in {"all", os}
             own == <<HelpLine("command", cmd.command, cmd.description)>>
                    \o [j \in 1..Len(cmd.subcommands) |->
                          HelpLine("subcommand", cmd.subcommands[j].name,
                                   cmd.subcommands[j].description)]
         IN  (IF included THEN own ELSE <<>>) \o ExpectedSection(i + 1, os)

\* C4: the command section of the help text for OS tag t holds exactly the
\* commands whose supported_os contains "all" or t, in table order, each
\* followed by its subcommands in declared order; a command restricted to
\* other tags does not appear.
C4_HelpCommandSection ==
    help_pc = "done"
        => /\ CommandSection(help_text) = ExpectedSection(1, current_os)
           /\ \A i \in 1..Len(HELP_COMMANDS) :
                 (\A k \in 1..Len(HELP_COMMANDS[i].supported_os) :
                      HELP_COMMANDS[i].supported_os[k] \notin {"all", current_os})
                 => \A n \in 1..Len(help_text) :
                      help_text[n][2] # HELP_COMMANDS[i].command

C4_Witness ==
    /\ help_pc = "done"
    /\ current_os = "windows"
    /\ \A n \in 1..Len(help_text) : help_text[n][2] # "/editor"
    /\ \E n \in 1..Len(help_text) :
          /\ help_text[n] = HelpLine("command", "/compact",
                                      "Summarize the conversation to free up context space")
          /\ help_text[n + 1][2] = "help"
          /\ help_text[n + 2][2] = "[prompt]"

\* ------------------------------------------------------------------
\* Completion dispatcher (prompt.rs)
\* ------------------------------------------------------------------
COMMANDS == <<
    <<"/", "c", "l", "e", "a", "r">>,
    <<"/", "h", "e", "l", "p">>,
    <<"/", "e", "d", "i", "t", "o", "r">>,
    <<"/", "i", "s", "s", "u", "e">>,
    <<"/", "q", "u", "i", "t">>,
    <<"/", "t", "o", "o", "l", "s">>,
    <<"/", "t", "o", "o", "l", "s", " ", "t", "r", "u", "s", "t">>,
    <<"/", "t", "o", "o", "l", "s", " ", "u", "n", "t", "r", "u", "s", "t">>,
    <<"/", "t", "o", "o", "l", "s", " ", "t", "r", "u", "s", "t", "a", "l", "l">>,
    <<"/", "t", "o", "o", "l", "s", " ", "r", "e", "s", "e", "t">>,
    <<"/", "p", "r", "o", "f", "i", "l", "e">>,
    <<"/", "p", "r", "o", "f", "i", "l", "e", " ", "h", "e", "l", "p">>,
    <<"/", "p", "r", "o", "f", "i", "l", "e", " ", "l", "i", "s", "t">>,
    <<"/", "p", "r", "o", "f", "i", "l", "e", " ", "c", "r", "e", "a", "t", "e">>,
    <<"/", "p", "r", "o", "f", "i", "l", "e", " ", "d", "e", "l", "e", "t", "e">>,
    <<"/", "p", "r", "o", "f", "i", "l", "e", " ", "r", "e", "n", "a", "m", "e">>,
    <<"/", "p", "r", "o", "f", "i", "l", "e", " ", "s", "e", "t">>,
    <<"/", "c", "o", "n", "t", "e", "x", "t", " ", "h", "e", "l", "p">>,
    <<"/", "c", "o", "n", "t", "e", "x", "t", " ", "s", "h", "o", "w">>,
    <<"/", "c", "o", "n", "t", "e", "x", "t", " ", "s", "h", "o", "w", " ", "-", "-", "e", "x", "p", "a", "n", "d">>,
    <<"/", "c", "o", "n", "t", "e", "x", "t", " ", "a", "d", "d">>,
    <<"/", "c", "o", "n", "t", "e", "x", "t", " ", "a", "d", "d", " ", "-", "-", "g", "l", "o", "b", "a", "l">>,
    <<"/", "c", "o", "n", "t", "e", "x", "t", " ", "r", "m">>,
    <<"/", "c", "o", "n", "t", "e", "x", "t", " ", "r", "m", " ", "-", "-", "g", "l", "o", "b", "a", "l">>,
    <<"/", "c", "o", "n", "t", "e", "x", "t", " ", "c", "l", "e", "a", "r">>,
    <<"/", "c", "o", "n", "t", "e", "x", "t", " ", "c", "l", "e", "a", "r", " ", "-", "-", "g", "l", "o", "b", "a", "l">>,
    <<"/", "c", "o", "n", "t", "e", "x", "t", " ", "h", "o", "o", "k", "s", " ", "h", "e", "l", "p">>,
    <<"/", "c", "o", "n", "t", "e", "x", "t", " ", "h", "o", "o", "k", "s", " ", "a", "d", "d">>,
    <<"/", "c", "o", "n", "t", "e", "x", "t", " ", "h", "o", "o", "k", "s", " ", "r", "m">>,
    <<"/", "c", "o", "n", "t", "e", "x", "t", " ", "h", "o", "o", "k", "s", " ", "e", "n", "a", "b", "l", "e">>,
    <<"/", "c", "o", "n", "t", "e", "x", "t", " ", "h", "o", "o", "k", "s", " ", "d", "i", "s", "a", "b", "l", "e">>,
    <<"/", "c", "o", "n", "t", "e", "x", "t", " ", "h", "o", "o", "k", "s", " ", "e", "n", "a", "b", "l", "e", "-", "a", "l", "l">>,
    <<"/", "c", "o", "n", "t", "e", "x", "t", " ", "h", "o", "o", "k", "s", " ", "d", "i", "s", "a", "b", "l", "e", "-", "a", "l", "l">>,
    <<"/", "c", "o", "m", "p", "a", "c", "t">>,
    <<"/", "c", "o", "m", "p", "a", "c", "t", " ", "h", "e", "l", "p">>,
    <<"/", "u", "s", "a", "g", "e">>,
    <<"/", "s", "a", "v", "e">>,
    <<"/", "l", "o", "a", "d">> >>

\* winnow's AsChar::is_space, the break test handed to extract_word
is_space(c) == c \in {" ", "\t"}

\* rustyline's extract_word(line, pos, None, is_space): the offset after the
\* last break character before the cursor, and the text from there to the
\* cursor
extract_word(l, p) ==
    LET breaks == {i \in 1..p : is_space(l[i])}
        start == IF breaks = {} THEN 0 ELSE CHOOSE i \in breaks : \A j \in breaks : j <= i
    IN  <<start, Slice(l, start, p)>>

\* Result values
Ok(v) == <<"Ok", v>>
Err(kind) == <<"Err", kind>>
IsOk(r) == r[1] = "Ok"

\* mutant: the prefix test is written the wrong way round
complete_command_reversed(word, start) ==
    <<start, SelectSeq(COMMANDS, LAMBDA c : StartsWith(word, c))>>

complete_command(word, start) ==
    <<start, SelectSeq(COMMANDS, LAMBDA c : StartsWith(c, word))>>

\* mutant: an empty search word is sent as Some("") instead of None
MentionRequest_always_some(word) == Some(word)

\* the message complete_prompt sends for a search word
MentionRequest(word) == IF word # <<>> THEN Some(word) ELSE None

\* complete_prompt after a successful recv: every name gets the "@" prefix
MentionCandidates(names) == [i \in 1..Len(names) |-> <<"@">> \o names[i]]

\* mutant: a closed channel is reported as "no names" instead of an error
complete_prompt_swallows(send_ok, recv) ==
    IF send_ok /\ IsOk(recv) THEN Ok(MentionCandidates(recv[2])) ELSE Ok(<<>>)

\* the value complete_prompt returns: the `?` after send and the `?` after
\* recv each turn a channel error into ReadlineError::Io
complete_prompt(send_ok, recv) ==
    IF ~send_ok
    THEN Err("Io")
    ELSE IF IsOk(recv) THEN Ok(MentionCandidates(recv[2])) ELSE Err("Io")

\* complete_path: the filename completer's answer with each pair turned
\* into its replacement string, or its error
complete_path(answer) == answer

\* mutant: an error of the path completer is handed to the caller
path_fallback_propagates(answer, start) ==
    LET r == complete_path(answer)
    IN  IF IsOk(r)
        THEN IF r[2][2] # <<>> THEN Ok(r[2]) ELSE Ok(<<start, <<>>>>)
        ELSE r

\* mutant: the default result replaces from the line start, not the word start
path_fallback_line_start(answer, start) ==
    LET r == complete_path(answer)
    IN  IF IsOk(r) /\ r[2][2] # <<>>
        THEN Ok(r[2])
        ELSE Ok(<<0, <<>>>>)

\* the tail of complete: path completion as fallback, else no completions
path_fallback(answer, start) ==
    LET r == complete_path(answer)
    IN  IF IsOk(r) /\ r[2][2] # <<>>
        THEN Ok(r[2])
        ELSE Ok(<<start, <<>>>>)

\* mutant: an answered mention request ends the pass, candidates or not
mention_outcome_no_fallthrough(prompt_result, answer, start) ==
    IF IsOk(prompt_result)
    THEN [result |-> Ok(<<0, prompt_result[2]>>), path |-> FALSE]
    ELSE [result |-> path_fallback(answer, start), path |-> TRUE]

\* mutant: the early return of the mention branch is missing
mention_outcome_no_return(prompt_result, answer, start) ==
    [result |-> path_fallback(answer, start), path |-> TRUE]

\* complete from the return of complete_prompt on: the mention candidates
\* when there are any, else the path fallback; `path` tells whether the path
\* completer was called
mention_outcome(prompt_result, answer, start) ==
    IF IsOk(prompt_result) /\ prompt_result[2] # <<>>
    THEN [result |-> Ok(<<0, prompt_result[2]>>), path |-> FALSE]
    ELSE [result |-> path_fallback(answer, start), path |-> TRUE]

\* ---- inputs ----
LineChars == {"/", "@", "h", " "}
Lines == SeqsUpTo(LineChars, MaxLineLen)

\* the line of test_chat_completer_no_completion
Hello ==
    <<"H", "e", "l", "l", "o", ",", " ", "h", "o", "w", " ", "a", "r", "e", " ", "y", "o", "u", "?">>
ExampleLines == {Hello}

Alice == <<"a", "l", "i", "c", "e">>
Bob == <<"b", "o", "b">>
\* what the mention collaborator may answer
Responses == {<<>>, <<Bob>>, <<Alice, Bob>>}

\* what the filename completer may answer for a cursor at p: an error, or a
\* replacement offset with the replacement strings found on disk
PathReplacements == {<<>>, <<Bob>>, <<Bob, Alice>>}
PathAnswers(p) ==
    {Err("Io")} \cup {Ok(<<q, c>>) : q \in 0..p, c \in PathReplacements}

CompletionInit ==
    /\ line = <<>>
    /\ pos = 0
    /\ fs = Err("Io")
    /\ complete_pc = "idle"
    /\ req_queue = <<>>
    /\ resp_queue = <<>>
    /\ req_rx_alive \in BOOLEAN
    /\ resp_tx_alive \in BOOLEAN
    /\ sent = <<>>
    /\ received = None
    /\ consulted = <<>>
    /\ result = None
    /\ prompt_returned = None

\* ChatCompleter::complete up to its return or to the blocking recv of
\* complete_prompt
Complete(l, p, f) ==
    /\ complete_pc = "idle"
    /\ line' = l
    /\ pos' = p
    /\ fs' = f
    /\ received' = None
    /\ LET w == extract_word(l, p)
           start == w[1]
           word == w[2]
       IN  IF StartsWith(word, <<"/">>)
           THEN /\ result' = Some(Ok(complete_command(word, start)))
                /\ prompt_returned' = None
                /\ consulted' = <<"command">>
                /\ sent' = <<>>
                /\ complete_pc' = "done"
                /\ UNCHANGED <<req_queue>>
           ELSE IF StartsWith(l, <<"@">>)
           THEN LET search_word == Slice(l, 1, Len(l))
                IN  IF req_rx_alive
                    THEN /\ req_queue' = Append(req_queue, MentionRequest(search_word))
                         /\ sent' = <<MentionRequest(search_word)>>
                         /\ consulted' = <<"mention">>
                         /\ result' = None
                         /\ prompt_returned' = None
                         /\ complete_pc' = "recv"
                    ELSE LET returned == complete_prompt(FALSE, None)
                             out == mention_outcome(returned, f, start)
                         IN  /\ result' = Some(out.result)
                             /\ prompt_returned' = Some(returned)
                             /\ consulted' = <<"mention">> \o (IF out.path THEN <<"path">> ELSE <<>>)
                             /\ sent' = <<>>
                             /\ complete_pc' = "done"
                             /\ UNCHANGED <<req_queue>>
           ELSE /\ result' = Some(path_fallback(f, start))
                /\ prompt_returned' = None
                /\ consulted' = <<"path">>
                /\ sent' = <<>>
                /\ complete_pc' = "done"
                /\ UNCHANGED <<req_queue>>
    /\ UNCHANGED <<resp_queue, req_rx_alive, resp_tx_alive>>
    /\ UNCHANGED <<prompt_vars, help_vars, validator_vars, ansi_vars>>

\* one completion pass on any line, cursor and state of the file system
CompleteAny ==
    /\ complete_pc = "idle"
    /\ \E l \in Lines \cup ExampleLines :
          \E p \in 0..Len(l) : \E f \in PathAnswers(p) : Complete(l, p, f)

\* mutant: recv gives up with an error although no response has arrived and
\* the sender is still there
MentionRecv_timeout ==
    /\ complete_pc = "recv"
    /\ LET start == extract_word(line, pos)[1]
           recv == IF resp_queue # <<>> THEN Ok(Head(resp_queue)) ELSE Err("RecvError")
           returned == complete_prompt(TRUE, recv)
           out == mention_outcome(returned, fs, start)
       IN  /\ received' = Some(recv)
           /\ prompt_returned' = Some(returned)
           /\ resp_queue' = IF resp_queue # <<>> THEN Tail(resp_queue) ELSE resp_queue
           /\ result' = Some(out.result)
           /\ consulted' = consulted \o (IF out.path THEN <<"path">> ELSE <<>>)
    /\ complete_pc' = "done"
    /\ UNCHANGED <<line, pos, fs, req_queue, req_rx_alive, resp_tx_alive, sent>>
    /\ UNCHANGED <<prompt_vars, help_vars, validator_vars, ansi_vars>>

\* receiver.recv() returns: a response, or an error once the channel is
\* empty and its sender is gone; then the rest of complete
MentionRecv ==
    /\ complete_pc = "recv"
    /\ resp_queue # <<>> \/ ~resp_tx_alive
    /\ LET start == extract_word(line, pos)[1]
           recv == IF resp_queue # <<>> THEN Ok(Head(resp_queue)) ELSE Err("RecvError")
           returned == complete_prompt(TRUE, recv)
           out == mention_outcome(returned, fs, start)
       IN  /\ received' = Some(recv)
           /\ prompt_returned' = Some(returned)
           /\ resp_queue' = IF resp_queue # <<>> THEN Tail(resp_queue) ELSE resp_queue
           /\ result' = Some(out.result)
           /\ consulted' = consulted \o (IF out.path THEN <<"path">> ELSE <<>>)
    /\ complete_pc' = "done"
    /\ UNCHANGED <<line, pos, fs, req_queue, req_rx_alive, resp_tx_alive, sent>>
    /\ UNCHANGED <<prompt_vars, help_vars, validator_vars, ansi_vars>>

\* the collaborator takes the oldest request and answers it
CollabReply ==
    \E names \in Responses :
        /\ req_rx_alive
        /\ resp_tx_alive
        /\ req_queue # <<>>
        /\ req_queue' = Tail(req_queue)
        /\ resp_queue' = Append(resp_queue, names)
        /\ UNCHANGED <<line, pos, fs, complete_pc, req_rx_alive, resp_tx_alive,
                       sent, received, consulted, result, prompt_returned>>
        /\ UNCHANGED <<prompt_vars, help_vars, validator_vars, ansi_vars>>

\* the collaborator drops its Receiver of requests; queued requests go with it
CollabDropReceiver ==
    /\ req_rx_alive
    /\ req_rx_alive' = FALSE
    /\ req_queue' = <<>>
    /\ UNCHANGED <<line, pos, fs, complete_pc, resp_queue, resp_tx_alive,
                   sent, received, consulted, result, prompt_returned>>
    /\ UNCHANGED <<prompt_vars, help_vars, validator_vars, ansi_vars>>

\* the collaborator drops its Sender of responses; queued responses stay
CollabDropSender ==
    /\ resp_tx_alive
    /\ resp_tx_alive' = FALSE
    /\ UNCHANGED <<line, pos, fs, complete_pc, req_queue, resp_queue, req_rx_alive,
                   sent, received, consulted, result, prompt_returned>>
    /\ UNCHANGED <<prompt_vars, help_vars, validator_vars, ansi_vars>>

CompletionNext ==
    \/ CompleteAny \/ MentionRecv
    \/ CollabReply \/ CollabDropReceiver \/ CollabDropSender

\* ---- an editor session: one completion pass after another ----
\* the lines completed in a session, cursor at the end of the line
SessionLines == {<<"@">>, <<"@", "h">>, <<"/", "h">>, <<"h">>}
SessionAnswers == {Err("Io"), Ok(<<0, <<>>>>), Ok(<<0, <<Bob>>>>)}

\* the editor asks for a completion of the line it holds
SessionComplete ==
    /\ complete_pc = "idle"
    /\ Len(req_queue) < MaxPending
    /\ \E l \in SessionLines : \E f \in SessionAnswers : Complete(l, Len(l), f)

\* complete has returned; control is back in the input loop and the locals
\* of the pass are gone
Return ==
    /\ complete_pc = "done"
    /\ complete_pc' = "idle"
    /\ line' = <<>>
    /\ pos' = 0
    /\ fs' = Err("Io")
    /\ sent' = <<>>
    /\ received' = None
    /\ consulted' = <<>>
    /\ result' = None
    /\ prompt_returned' = None
    /\ UNCHANGED <<req_queue, resp_queue, req_rx_alive, resp_tx_alive>>
    /\ UNCHANGED <<prompt_vars, help_vars, validator_vars, ansi_vars>>

SessionNext ==
    \/ SessionComplete \/ MentionRecv \/ Return
    \/ CollabReply \/ CollabDropReceiver \/ CollabDropSender

\* ------------------------------------------------------------------
\* Properties of the completion dispatcher
\* ------------------------------------------------------------------
PassStarted == complete_pc \in {"recv", "done"}
PassDone == complete_pc = "done"

\* offset at which the word under the cursor starts: the nearest offset at
\* or before the cursor that is the line start or follows a blank, with no
\* blank between it and the cursor
WordStart ==
    CHOOSE s \in 0..pos :
        /\ \A i \in (s + 1)..pos : line[i] \notin {" ", "\t"}
        /\ s = 0 \/ line[s] \in {" ", "\t"}

WordUnderCursor == SubSeq(line, WordStart + 1, pos)
WordIsCommand == WordUnderCursor # <<>> /\ WordUnderCursor[1] = "/"
LineIsMention == line # <<>> /\ line[1] = "@"

\* positions of the COMMANDS entries that have the word as a prefix
MatchingCommands ==
    {i \in 1..Len(COMMANDS) :
        /\ Len(WordUnderCursor) <= Len(COMMANDS[i])
        /\ \A k \in 1..Len(WordUnderCursor) : COMMANDS[i][k] = WordUnderCursor[k]}

\* the k-th smallest element of a set of numbers
Nth(S, k) == CHOOSE i \in S : Cardinality({j \in S : j <= i}) = k

ResultValue == Unwrap(result)
ResultStart == ResultValue[2][1]
ResultCandidates == ResultValue[2][2]

CommandYielded == "command" \in Range(consulted) /\ MatchingCommands # {}
MentionYielded == IsSome(received) /\ IsOk(Unwrap(received)) /\ Unwrap(received)[2] # <<>>
PathYields == IsOk(fs) /\ fs[2][2] # <<>>

\* C6: the sources are tried in the order command, mention, path, and once
\* a source has yielded a candidate no later source is consulted: no
\* mention request after command candidates, no path completion after
\* command or mention candidates.
C6_PriorityOrder ==
    /\ consulted \in {<<>>, <<"command">>, <<"mention">>, <<"path">>, <<"mention", "path">>}
    /\ CommandYielded => (sent = <<>> /\ consulted = <<"command">>)
    /\ MentionYielded => "path" \notin Range(consulted)
    /\ (sent # <<>>) => "mention" \in Range(consulted)

C6_Witness ==
    /\ PassDone
    /\ MentionYielded
    /\ PathYields
    /\ consulted = <<"mention">>

\* C7 (as stated): complete returns the candidates of the highest-priority
\* source that yields any for the input, and an empty list only when no
\* source yields any.
C7_FirstNonEmptyWins ==
    PassDone
        => /\ IsOk(ResultValue)
           /\ ResultCandidates =
                 IF WordIsCommand /\ MatchingCommands # {}
                 THEN [k \in 1..Cardinality(MatchingCommands) |->
                          COMMANDS[Nth(MatchingCommands, k)]]
                 ELSE IF MentionYielded
                 THEN [k \in 1..Len(Unwrap(received)[2]) |-> <<"@">> \o Unwrap(received)[2][k]]
                 ELSE IF PathYields
                 THEN fs[2][2]
                 ELSE <<>>

\* the request a mention pass is expected to carry
ExpectedRequest == IF Tail(line) = <<>> THEN None ELSE Some(Tail(line))

ExpectedMentionResult ==
    Ok(<<0, [k \in 1..Len(Unwrap(received)[2]) |-> <<"@">> \o Unwrap(received)[2][k]]>>)

SendFailed == "mention" \in Range(consulted) /\ sent = <<>>

C9_EmptyMentionFallsThrough ==
    (PassDone /\ LineIsMention /\ received = Some(Ok(<<>>)))
        => /\ consulted = <<"mention", "path">>
           /\ PathYields => ResultValue = Ok(fs[2])

C9_Witness ==
    /\ PassDone
    /\ LineIsMention
    /\ received = Some(Ok(<<>>))
    /\ PathYields
    /\ ResultValue = Ok(fs[2])

\* C10 (as stated): when path completion is consulted and errors, complete
\* returns a failure, distinguishable from Ok with no candidates.
C10_PathErrorPropagates ==
    (PassDone /\ "path" \in Range(consulted) /\ ~IsOk(fs))
        => ~IsOk(ResultValue)

\* C10 (amended): when path completion is consulted and errors, complete
\* returns Ok with an empty candidate list and replace_start at the start of
\* the word under the cursor, the same value it returns when there are no
\* candidates.
C10_PathErrorSwallowed ==
    (PassDone /\ "path" \in Range(consulted) /\ ~IsOk(fs))
        => ResultValue = Ok(<<WordStart, <<>>>>)

C10_Witness ==
    /\ PassDone
    /\ consulted = <<"path">>
    /\ ~IsOk(fs)
    /\ line = <<"h", " ", "h">>
    /\ pos = 3
    /\ ResultValue = Ok(<<2, <<>>>>)

\* a channel was closed when this pass sent its request or awaited the
\* response
TransportFailed == SendFailed \/ received = Some(Err("RecvError"))

\* C11 (as stated): when the request or the response channel is closed as a
\* mention completion sends or awaits, complete returns an I/O failure to
\* its caller, without retrying.
C11_TransportFailureSurfaces ==
    (PassDone /\ TransportFailed)
        => /\ ~IsOk(ResultValue)
           /\ Len(sent) <= 1

\* C11 (amended): in that case complete_prompt returns an I/O failure to its
\* immediate caller, complete, without retrying; complete discards it, goes
\* on to path completion and returns Ok to its own caller: the path
\* candidates if there are any, else an empty list at the word start.
C11_TransportFailureDiscarded ==
    (PassDone /\ TransportFailed)
        => /\ prompt_returned = Some(Err("Io"))
           /\ Len(sent) <= 1
           /\ consulted = <<"mention", "path">>
           /\ ResultValue = IF PathYields THEN Ok(fs[2]) ELSE Ok(<<WordStart, <<>>>>)

C11_Witness ==
    /\ PassDone
    /\ line = <<"@", "h">>
    /\ sent = <<Some(<<"h">>)>>
    /\ received = Some(Err("RecvError"))
    /\ prompt_returned = Some(Err("Io"))
    /\ ~PathYields
    /\ ResultValue = Ok(<<0, <<>>>>)

\* no source has a candidate for this input
NoSourceYields ==
    /\ ~(WordIsCommand /\ MatchingCommands # {})
    /\ ~MentionYielded
    /\ ~PathYields

\* C12: when no source applies or yields a result, complete returns Ok with
\* an empty candidate list and replace_start at the start of the word under
\* the cursor.
C12_NoCompletion ==
    (PassDone /\ NoSourceYields) => ResultValue = Ok(<<WordStart, <<>>>>)

C12_Witness ==
    /\ PassDone
    /\ line = Hello
    /\ pos = Len(Hello)
    /\ fs = Ok(<<15, <<>>>>)
    /\ ResultValue = Ok(<<15, <<>>>>)

\* ---- properties of the request/response rendezvous ----
\* the variables only the dispatcher's pass writes
pass_vars == <<line, pos, fs, complete_pc, sent, received, consulted, result,
               prompt_returned>>

\* recv can return: a response is queued or the response Sender is gone
ResponseAvailable == resp_queue # <<>> \/ ~resp_tx_alive

\* while blocked in recv the pass moves only when recv can return
C16_BlockedUntilResponse ==
    (complete_pc = "recv" /\ pass_vars' # pass_vars) => ResponseAvailable

\* C16: after a mention completion has sent its request the dispatcher
\* takes no further step of that pass until a response has arrived or the
\* response channel is closed (so a pass whose collaborator never does
\* either never returns), and once a response has arrived or the channel is
\* closed the pass eventually returns.
C16_BlockingRendezvous ==
    /\ [][C16_BlockedUntilResponse]_vars
    /\ [](complete_pc = "recv" => result = None)
    /\ (complete_pc = "recv" /\ ResponseAvailable) ~> (complete_pc = "done")

C16_Witness ==
    /\ PassDone
    /\ sent = <<Some(<<"h">>)>>
    /\ received = Some(Ok(<<Alice, Bob>>))
    /\ req_queue = <<>>
    /\ resp_tx_alive

\* requests sent by the dispatcher that the collaborator has neither
\* answered nor discarded
Unanswered == Len(req_queue)

\* C17 (as stated): in every state reached by completion passes interleaved
\* with collaborator steps (reply, close of either channel), at most one
\* request has been sent and not yet answered.
C17_AtMostOneUnanswered == Unanswered <= 1

\* the same while the collaborator still holds the response Sender
C17_AtMostOneWhileSenderHeld == resp_tx_alive => Unanswered <= 1

\* ------------------------------------------------------------------
\* Multi-line input validator (prompt.rs, MultiLineValidator)
\* ------------------------------------------------------------------
\* the backtick character (a string literal cannot hold it)
Backtick == "BACKTICK"
Fence == <<Backtick, Backtick, Backtick>>
Backslash == <<"\\">>

\* mutant: a trailing backslash does not continue the input
validate_no_continuation(input) ==
    IF StartsWith(input, Fence) /\ ~EndsWith(input, Fence)
    THEN Ok("Incomplete")
    ELSE Ok("Valid")

\* MultiLineValidator::validate on the buffer `input`
validate(input) ==
    IF StartsWith(input, Fence) /\ ~EndsWith(input, Fence)
    THEN Ok("Incomplete")
    ELSE IF EndsWith(input, Backslash)
         THEN Ok("Incomplete")
         ELSE Ok("Valid")

BufferChars == {Backtick, "\\", "a"}
Buffers == SeqsUpTo(BufferChars, MaxBufferLen)

ValidatorInit ==
    /\ buffer \in Buffers
    /\ validation = None

\* the editor calls validate on the buffer it holds
Validate ==
    /\ validation = None
    /\ validation' = Some(validate(buffer))
    /\ UNCHANGED <<buffer, prompt_vars, help_vars, completion_vars, ansi_vars>>

ValidatorNext == Validate

\* ---- properties of the validator ----
Validated == validation # None

\* the buffer starts with three backticks
FenceAtStart ==
    Len(buffer) >= 3 /\ \A i \in 1..3 : buffer[i] = Backtick

\* the buffer ends with three backticks
FenceAtEnd ==
    Len(buffer) >= 3 /\ \A i \in (Len(buffer) - 2)..Len(buffer) : buffer[i] = Backtick

\* the last character of the buffer is a backslash
BackslashAtEnd ==
    Len(buffer) >= 1 /\ buffer[Len(buffer)] = "\\"

C13_Classification ==
    Validated =>
        validation = Some(Ok(IF (FenceAtStart /\ ~FenceAtEnd) \/ BackslashAtEnd
                             THEN "Incomplete"
                             ELSE "Valid"))

C18_CompleteFenceIsClosed ==
    /\ (Validated /\ FenceAtStart /\ validation = Some(Ok("Valid")))
           => (Len(buffer) >= 6 /\ FenceAtEnd)
    /\ (Validated /\ buffer = Fence) => validation = Some(Ok("Incomplete"))

\* ------------------------------------------------------------------
\* Console shim (util/windows.rs)
\* ------------------------------------------------------------------
\* the flag value of the Win32 console API
ENABLE_VIRTUAL_TERMINAL_PROCESSING == 4

RECURSIVE Pow2(_)
Pow2(k) == IF k = 0 THEN 1 ELSE 2 * Pow2(k - 1)

\* the values of CONSOLE_MODE
Modes == 0..(Pow2(ModeBits) - 1)

\* the operator | of CONSOLE_MODE
RECURSIVE BitOr(_, _)
BitOr(a, b) ==
    IF a = 0 THEN b
    ELSE IF b = 0 THEN a
    ELSE (IF a % 2 = 1 \/ b % 2 = 1 THEN 1 ELSE 0) + 2 * BitOr(a \div 2, b \div 2)

\* mutant: the mode is replaced by the flag instead of extended by it
with_vt_only(m) == ENABLE_VIRTUAL_TERMINAL_PROCESSING

\* mode |= ENABLE_VIRTUAL_TERMINAL_PROCESSING
with_vt(m) == BitOr(m, ENABLE_VIRTUAL_TERMINAL_PROCESSING)

\* mutant: a failed SetConsoleMode is reported to the caller
enable_ansi_return_propagates(path) ==
    IF path = "write_failed" THEN Err("Os") ELSE Ok("unit")

\* the value enable_ansi_support returns on each of its four paths:
\* "no_handle", "read_failed", "write_failed", "success"
enable_ansi_return(path) == Ok("unit")

\* GetStdHandle yields 0, INVALID_HANDLE_VALUE, a handle that is not a
\* console (redirected output) or a console handle
Handles == {"null", "invalid", "file", "console"}

\* GetConsoleMode fails on anything but a console, and may fail on a console
GetConsoleModeOutcomes == IF std_handle = "console" THEN BOOLEAN ELSE {FALSE}

AnsiInit ==
    /\ std_handle \in Handles
    /\ console_mode \in Modes
    /\ ansi_pc = "idle"
    /\ mode = 0
    /\ got = None
    /\ wrote = None
    /\ mode_before = console_mode
    /\ ansi_result = None
    /\ ansi_calls = 0

\* a call of enable_ansi_support up to the test of the handle
EnableAnsiSupport ==
    /\ ansi_pc \in {"idle", "returned"}
    /\ ansi_calls < MaxAnsiCalls
    /\ ansi_calls' = ansi_calls + 1
    /\ mode_before' = console_mode
    /\ mode' = 0
    /\ got' = None
    /\ wrote' = None
    /\ IF std_handle = "null"
       THEN /\ ansi_result' = Some(enable_ansi_return("no_handle"))
            /\ ansi_pc' = "returned"
       ELSE /\ ansi_result' = None
            /\ ansi_pc' = "handle"
    /\ UNCHANGED <<std_handle, console_mode>>
    /\ UNCHANGED <<prompt_vars, help_vars, completion_vars, validator_vars>>

\* GetConsoleMode(handle, &mut mode) and, when it succeeds, the |= on mode
AnsiGetConsoleMode ==
    /\ ansi_pc = "handle"
    /\ \E ok \in GetConsoleModeOutcomes :
        /\ got' = Some(ok)
        /\ IF ok
           THEN /\ mode' = with_vt(console_mode)
                /\ ansi_pc' = "mode"
                /\ ansi_result' = None
           ELSE /\ mode' = mode
                /\ ansi_pc' = "returned"
                /\ ansi_result' = Some(enable_ansi_return("read_failed"))
    /\ UNCHANGED <<std_handle, console_mode, wrote, mode_before, ansi_calls>>
    /\ UNCHANGED <<prompt_vars, help_vars, completion_vars, validator_vars>>

\* SetConsoleMode(handle, mode) and the return that follows it
AnsiSetConsoleMode ==
    /\ ansi_pc = "mode"
    /\ \E ok \in BOOLEAN :
        /\ wrote' = Some(ok)
        /\ console_mode' = IF ok THEN mode ELSE console_mode
        /\ ansi_result' = Some(enable_ansi_return(IF ok THEN "success" ELSE "write_failed"))
    /\ ansi_pc' = "returned"
    /\ UNCHANGED <<std_handle, mode, got, mode_before, ansi_calls>>
    /\ UNCHANGED <<prompt_vars, help_vars, completion_vars, validator_vars>>

AnsiNext == EnableAnsiSupport \/ AnsiGetConsoleMode \/ AnsiSetConsoleMode

\* ---- properties of the console shim ----
AnsiReturned == ansi_pc = "returned"

\* C14: enable_ansi_support never fails its caller: on every path (no
\* console handle, failure to read the mode, failure to write the mode, full
\* success) it returns success, in every call of any sequence of calls.
C14_NeverFails ==
    /\ AnsiReturned => ansi_result = Some(Ok("unit"))
    /\ ansi_result # None => IsOk(Unwrap(ansi_result))

C14_Witness ==
    /\ AnsiReturned
    /\ ansi_calls = 2
    /\ wrote = Some(FALSE)
    /\ ansi_result = Some(Ok("unit"))

\* the single-bit flags of a console mode
Flags == {Pow2(k) : k \in 0..(ModeBits - 1)}

HasFlag(m, f) == (m \div f) % 2 = 1

\* the call read the mode and wrote the new one
FullSuccess == got = Some(TRUE) /\ wrote = Some(TRUE)

\* the call had no handle or could not read the mode
NoHandleOrNoRead == std_handle = "null" \/ got = Some(FALSE)

\* C15: after a call that obtained the handle and read and wrote the mode,
\* the console mode is the old mode with the virtual-terminal flag added and
\* every other flag unchanged; after a call that had no handle or could not
\* read the mode, no write was attempted and the mode is unchanged.
C15_ModeEffect ==
    AnsiReturned =>
        /\ FullSuccess =>
              \A f \in Flags :
                  HasFlag(console_mode, f)
                      <=> (f = ENABLE_VIRTUAL_TERMINAL_PROCESSING \/ HasFlag(mode_before, f))
        /\ NoHandleOrNoRead => (wrote = None /\ console_mode = mode_before)

C15_Witness ==
    /\ AnsiReturned
    /\ FullSuccess
    /\ mode_before = 3
    /\ console_mode = 7

\* ------------------------------------------------------------------
\* Specifications
\* ------------------------------------------------------------------
\* a component that is not exercised stays as constructed
PromptIdle ==
    /\ prompt_origin = "raw"
    /\ current_profile = None
    /\ warning = FALSE
    /\ prompt = <<>>
    /\ prompt_pc = "fresh"
    /\ components = None
    /\ highlighted = None

HelpIdle ==
    /\ current_os = "all"
    /\ help_text = <<>>
    /\ help_pc = "start"
    /\ cmd_idx = 1
    /\ sub_idx = 1

CompletionIdle ==
    /\ line = <<>>
    /\ pos = 0
    /\ fs = Err("Io")
    /\ complete_pc = "idle"
    /\ req_queue = <<>>
    /\ resp_queue = <<>>
    /\ req_rx_alive = TRUE
    /\ resp_tx_alive = TRUE
    /\ sent = <<>>
    /\ received = None
    /\ consulted = <<>>
    /\ result = None
    /\ prompt_returned = None

ValidatorIdle ==
    /\ buffer = <<>>
    /\ validation = None

AnsiIdle ==
    /\ std_handle = "null"
    /\ console_mode = 0
    /\ ansi_pc = "idle"
    /\ mode = 0
    /\ got = None
    /\ wrote = None
    /\ mode_before = 0
    /\ ansi_result = None
    /\ ansi_calls = 0

InitPrompt == PromptInit /\ HelpIdle /\ CompletionIdle /\ ValidatorIdle /\ AnsiIdle
SpecPrompt == InitPrompt /\ [][PromptNext]_vars

InitHelp == HelpInit /\ PromptIdle /\ CompletionIdle /\ ValidatorIdle /\ AnsiIdle
SpecHelp == InitHelp /\ [][HelpNext]_vars

InitCompletion == CompletionInit /\ PromptIdle /\ HelpIdle /\ ValidatorIdle /\ AnsiIdle
SpecCompletion == InitCompletion /\ [][CompletionNext]_vars

InitValidator == ValidatorInit /\ PromptIdle /\ HelpIdle /\ CompletionIdle /\ AnsiIdle
SpecValidator == InitValidator /\ [][ValidatorNext]_vars

InitAnsi == AnsiInit /\ PromptIdle /\ HelpIdle /\ CompletionIdle /\ ValidatorIdle
SpecAnsi == InitAnsi /\ [][AnsiNext]_vars

\* recv returns as soon as it can: the dispatcher thread is not starved
InitSession == CompletionInit /\ PromptIdle /\ HelpIdle /\ ValidatorIdle /\ AnsiIdle
SpecSession == InitSession /\ [][SessionNext]_vars /\ WF_vars(MentionRecv)

====
